---- MODULE Spec2Model ----
(***************************************************************************)
(* Model of the Mista channel handler of courier: the two webhook handlers *)
(* (receiveMessage, receiveStatus) and the outbound SendMsg, in the three  *)
(* revisions of the handler the repository holds: src/mista.go,            *)
(* src/unnamed/part_000 and src/unnamed/part_001.                          *)
(*                                                                         *)
(* Strings the code only compares are TLA+ strings.  The date field, which *)
(* time.Parse reads character by character, is a sequence of one-character *)
(* strings.  An optional value (a JSON member that may be missing) is a    *)
(* sequence of length 0 or 1.                                              *)
(***************************************************************************)
EXTENDS Integers, Sequences, FiniteSets, TLC

VARIABLES
    rev,        \* the revision of the handler that is deployed
    channel,    \* the channel's configuration (read-only for the handler)
    handler,    \* the handler function of the current / last call
    input,      \* its input: the decoded form, or the outbound message
    pc,         \* "idle", "inflight" (SendMsg blocked in the HTTP call), "done"
    netCalls,   \* HTTP requests issued to the provider by the current call
    request,    \* the HTTP request handed to the HTTP client (0 or 1 element)
    response,   \* what the HTTP client came back with (0 or 1 element)
    status,     \* the MsgStatus record SendMsg has created so far (0 or 1)
    events,     \* what the call handed to the host: messages, statuses
    err         \* the error the call ended with (NoError for nil)

vars == <<rev, channel, handler, input, pc, netCalls, request, response,
          status, events, err>>

Revisions == {"mista", "part_000", "part_001"}

(***************************************************************************)
(* time.Parse, for the layouts the handler uses.                           *)
(***************************************************************************)
Digit ==
    [c \in {"0", "1", "2", "3", "4", "5", "6", "7", "8", "9"} |->
        CASE c = "0" -> 0 [] c = "1" -> 1 [] c = "2" -> 2 [] c = "3" -> 3
          [] c = "4" -> 4 [] c = "5" -> 5 [] c = "6" -> 6 [] c = "7" -> 7
          [] c = "8" -> 8 [] c = "9" -> 9]

isDigit(s, i) == i <= Len(s) /\ s[i] \in DOMAIN Digit

Drop(s, n) == SubSeq(s, n + 1, Len(s))

\* getnum(s, fixed): a one- or two-digit number; two digits when fixed
getnum(s, fixed) ==
    IF ~isDigit(s, 1) THEN [ok |-> FALSE, n |-> 0, rest |-> s]
    ELSE IF ~isDigit(s, 2)
         THEN IF fixed THEN [ok |-> FALSE, n |-> 0, rest |-> s]
              ELSE [ok |-> TRUE, n |-> Digit[s[1]], rest |-> Drop(s, 1)]
         ELSE [ok |-> TRUE, n |-> Digit[s[1]] * 10 + Digit[s[2]],
               rest |-> Drop(s, 2)]

\* the four-digit year of stdLongYear
getyear(s) ==
    IF Len(s) >= 4 /\ \A i \in 1..4 : isDigit(s, i)
    THEN [ok |-> TRUE,
          n |-> Digit[s[1]] * 1000 + Digit[s[2]] * 100 + Digit[s[3]] * 10
                + Digit[s[4]],
          rest |-> Drop(s, 4)]
    ELSE [ok |-> FALSE, n |-> 0, rest |-> s]

\* the zone of stdISO8601ColonTZ ("Z07:00"): Z, or a sign, hh, a colon, mm;
\* n is the offset east of UTC in seconds
getzone(s) ==
    IF Len(s) >= 1 /\ s[1] = "Z"
    THEN [ok |-> TRUE, n |-> 0, rest |-> Drop(s, 1)]
    ELSE IF /\ Len(s) >= 6
            /\ s[1] \in {"+", "-"}
            /\ s[4] = ":"
            /\ getnum(SubSeq(s, 2, 3), TRUE).ok
            /\ getnum(SubSeq(s, 5, 6), TRUE).ok
         THEN [ok |-> TRUE,
               n |-> (IF s[1] = "-" THEN -1 ELSE 1)
                     * (getnum(SubSeq(s, 2, 3), TRUE).n * 3600
                        + getnum(SubSeq(s, 5, 6), TRUE).n * 60),
               rest |-> Drop(s, 6)]
         ELSE [ok |-> FALSE, n |-> 0, rest |-> s]

isLeap(year) == year % 4 = 0 /\ (year % 100 # 0 \/ year % 400 = 0)

daysIn(month, year) ==
    IF month = 2 THEN (IF isLeap(year) THEN 29 ELSE 28)
    ELSE IF month \in {4, 6, 9, 11} THEN 30 ELSE 31

\* days from 1970-01-01 to the civil date
daysSinceEpoch(y, m, d) ==
    LET yy  == IF m <= 2 THEN y - 1 ELSE y
        era == yy \div 400
        yoe == yy - era * 400
        mp  == IF m > 2 THEN m - 3 ELSE m + 9
        doy == (153 * mp + 2) \div 5 + d - 1
        doe == yoe * 365 + yoe \div 4 - yoe \div 100 + doy
    IN  era * 146097 + doe - 719468

\* an instant: the day since the epoch and the second of that day, in UTC
Date(y, mo, d, h, mi, s, off) ==
    LET total == h * 3600 + mi * 60 + s - off
    IN  [day |-> daysSinceEpoch(y, mo, d) + total \div 86400,
         sec |-> total % 86400]

\* the zero value of time.Time: January 1, year 1, 00:00:00 UTC
ZeroTime == Date(1, 1, 1, 0, 0, 0, 0)

\* the layouts, cut into their standard chunks and literal characters
RFC3339 ==
    <<"2006", "-", "01", "-", "02", "T", "15", ":", "04", ":", "05", "Z07:00">>
LayoutLiteralZ ==
    <<"2006", "-", "01", "-", "02", "T", "15", ":", "04", ":", "05", "Z">>
LayoutSpace ==
    <<"2006", "-", "01", "-", "02", " ", "15", ":", "04", ":", "05">>

NoFields == [y |-> 1, mo |-> 1, d |-> 1, h |-> 0, mi |-> 0, s |-> 0, off |-> 0]

RECURSIVE parseFrom(_, _, _, _)
parseFrom(layout, i, value, f) ==
    IF i > Len(layout)
    THEN IF Len(value) # 0 \/ f.d < 1 \/ f.d > daysIn(f.mo, f.y)
         THEN [ok |-> FALSE, t |-> ZeroTime]
         ELSE [ok |-> TRUE,
               t |-> Date(f.y, f.mo, f.d, f.h, f.mi, f.s, f.off)]
    ELSE
      LET std == layout[i]
          bad == [ok |-> FALSE, t |-> ZeroTime]
      IN
      CASE std = "2006" ->
             LET r == getyear(value)
             IN IF r.ok THEN parseFrom(layout, i + 1, r.rest, [f EXCEPT !.y = r.n])
                ELSE bad
        [] std = "01" ->
             LET r == getnum(value, TRUE)
             IN IF r.ok /\ r.n >= 1 /\ r.n <= 12
                THEN parseFrom(layout, i + 1, r.rest, [f EXCEPT !.mo = r.n])
                ELSE bad
        [] std = "02" ->
             LET r == getnum(value, TRUE)
             IN IF r.ok THEN parseFrom(layout, i + 1, r.rest, [f EXCEPT !.d = r.n])
                ELSE bad
        [] std = "15" ->
             LET r == getnum(value, FALSE)
             IN IF r.ok /\ r.n < 24
                THEN parseFrom(layout, i + 1, r.rest, [f EXCEPT !.h = r.n])
                ELSE bad
        [] std = "04" ->
             LET r == getnum(value, TRUE)
             IN IF r.ok /\ r.n < 60
                THEN parseFrom(layout, i + 1, r.rest, [f EXCEPT !.mi = r.n])
                ELSE bad
        [] std = "05" ->
             LET r == getnum(value, TRUE)
             IN IF r.ok /\ r.n < 60
                THEN parseFrom(layout, i + 1, r.rest, [f EXCEPT !.s = r.n])
                ELSE bad
        [] std = "Z07:00" ->
             LET r == getzone(value)
             IN IF r.ok THEN parseFrom(layout, i + 1, r.rest, [f EXCEPT !.off = r.n])
                ELSE bad
        [] OTHER ->
             IF Len(value) >= 1 /\ value[1] = std
             THEN parseFrom(layout, i + 1, Drop(value, 1), f)
             ELSE bad

\* time.Parse(layout, value): [ok, t]
Parse(layout, value) == parseFrom(layout, 1, value, NoFields)

(***************************************************************************)
(* Errors.  kind "none" is the nil error; value is what the message names. *)
(***************************************************************************)
NoError == [kind |-> "none", value |-> ""]
Error(kind, value) == [kind |-> kind, value |-> value]

\* what a handler call gives back: the events for the host and the error
Rejected(e) == [events |-> <<>>, err |-> e]
Accepted(evs) == [events |-> evs, err |-> NoError]

(***************************************************************************)
(* Struct tags.  A tag is the sequence of its key:"value" pairs; a key     *)
(* that is not followed by a quoted value has no value (<<>>).             *)
(* reflect.StructTag.Lookup reads the pairs from the left and stops at the *)
(* first one that is not of the form key:"value".                          *)
(***************************************************************************)
Pair(k, v) == [key |-> k, val |-> <<v>>]
Bare(k) == [key |-> k, val |-> <<>>]

RECURSIVE lookupFrom(_, _, _)
lookupFrom(tag, i, key) ==
    IF i > Len(tag) \/ tag[i].val = <<>> THEN <<>>
    ELSE IF tag[i].key = key THEN tag[i].val
    ELSE lookupFrom(tag, i + 1, key)

Lookup(tag, key) == lookupFrom(tag, 1, key)

\* type moForm struct, src/mista.go
moForm_mista ==
    [id   |-> <<Pair("name", "id")>>,
     text |-> <<Pair("validate", "required"), Pair("name", "body")>>,
     from |-> <<Pair("validate", "required"), Pair("name", "from")>>,
     to   |-> <<Pair("validate", "required"), Pair("name", "to")>>,
     date |-> <<Pair("name", "date")>>]

\* type moForm struct, part_000 and part_001: `json:validate:"required" name:".."`
moForm_part000 ==
    [id   |-> <<Bare("json"), Pair("validate", "required"), Pair("name", "id")>>,
     text |-> <<Bare("json"), Pair("validate", "required"), Pair("name", "text")>>,
     from |-> <<Bare("json"), Pair("validate", "required"), Pair("name", "from")>>,
     to   |-> <<Bare("json"), Pair("validate", "required"), Pair("name", "to")>>,
     date |-> <<Bare("json"), Pair("validate", "required"), Pair("name", "date")>>]

moForm_part001 == moForm_part000

\* type statusForm struct (the same in the three revisions)
statusForm ==
    [id     |-> <<Pair("validate", "required"), Pair("name", "id")>>,
     status |-> <<Pair("validate", "required"), Pair("name", "status")>>]

\* the zero value of a form field: the date is a sequence of characters
IsEmpty(f, v) == IF f = "date" THEN v = <<>> ELSE v = ""

\* the fields of the form whose tag asks for a value and that have none
MissingFields(form, tags) ==
    {f \in DOMAIN tags : Lookup(tags[f], "validate") = <<"required">> /\ IsEmpty(f, form[f])}

\* handlers.DecodeAndValidateForm: nil, or the error of the validator
DecodeAndValidateForm(form, tags) ==
    IF MissingFields(form, tags) = {} THEN NoError
    ELSE Error("validation", CHOOSE f \in MissingFields(form, tags) : TRUE)

(***************************************************************************)
(* handlers.StrictTelForCountry: the tel URN of a number that is a valid   *)
(* phone number of the country, an error otherwise.                        *)
(***************************************************************************)
TelPlan ==
    {<<"UG", "0711223344", "+256711223344">>,
     <<"UG", "+256711223344", "+256711223344">>,
     <<"US", "2065551212", "+12065551212">>,
     <<"US", "+12065551212", "+12065551212">>}

StrictTelForCountry(number, country) ==
    IF \E e \in TelPlan : e[1] = country /\ e[2] = number
    THEN [ok |-> TRUE,
          urn |-> "tel:" \o (CHOOSE e \in TelPlan : e[1] = country /\ e[2] = number)[3]]
    ELSE [ok |-> FALSE, urn |-> ""]

\* Backend.NewIncomingMsg(..).WithExternalID(..).WithReceivedOn(..)
NewIncomingMsg(ch, urn, text, externalID, receivedOn) ==
    [kind |-> "msg", channel |-> ch.uuid, urn |-> urn, text |-> text,
     externalID |-> externalID, receivedOn |-> receivedOn]

(***************************************************************************)
(* receiveMessage                                                          *)
(***************************************************************************)
\* a parseDate that has no case for the empty date
parseDate_required(date) ==
    IF Parse(RFC3339, date).ok THEN Parse(RFC3339, date)
    ELSE Parse(LayoutLiteralZ, date)

\* src/mista.go: an empty date is left at the zero time; RFC3339 is tried
\* first, then the layout with the literal Z
parseDate_mista(date) ==
    IF date # <<>>
    THEN IF Parse(RFC3339, date).ok THEN Parse(RFC3339, date)
         ELSE Parse(LayoutLiteralZ, date)
    ELSE [ok |-> TRUE, t |-> ZeroTime]

\* part_000, part_001: the literal-Z layout first, then the space layout
parseDate_part000(date) ==
    IF Parse(LayoutLiteralZ, date).ok THEN Parse(LayoutLiteralZ, date)
    ELSE Parse(LayoutSpace, date)

\* a receiveMessage that takes the origin address as it comes
receiveMessage_unchecked(form, ch) ==
    LET verr == DecodeAndValidateForm(form, moForm_mista)
        date == parseDate_mista(form.date)
    IN  IF verr.kind # "none" THEN Rejected(verr)
        ELSE IF ~date.ok THEN Rejected(Error("invalid date format", form.date))
        ELSE Accepted(<<NewIncomingMsg(ch, "tel:" \o form.from, form.text, form.id,
                                       date.t)>>)

receiveMessage_mista(form, ch) ==
    LET verr == DecodeAndValidateForm(form, moForm_mista)
        date == parseDate_mista(form.date)
        tel  == StrictTelForCountry(form.from, ch.country)
    IN  IF verr.kind # "none" THEN Rejected(verr)
        ELSE IF ~date.ok THEN Rejected(Error("invalid date format", form.date))
        ELSE IF ~tel.ok THEN Rejected(Error("invalid tel", form.from))
        ELSE Accepted(<<NewIncomingMsg(ch, tel.urn, form.text, form.id, date.t)>>)

receiveMessage_part000(form, ch) ==
    LET verr == DecodeAndValidateForm(form, moForm_part000)
        date == parseDate_part000(form.date)
        tel  == StrictTelForCountry(form.from, ch.country)
    IN  IF verr.kind # "none" THEN Rejected(verr)
        ELSE IF ~date.ok THEN Rejected(Error("invalid date format", form.date))
        ELSE IF ~tel.ok THEN Rejected(Error("invalid tel", form.from))
        ELSE Accepted(<<NewIncomingMsg(ch, tel.urn, form.text, form.id, date.t)>>)

receiveMessage_part001(form, ch) ==
    LET verr == DecodeAndValidateForm(form, moForm_part001)
        date == parseDate_part000(form.date)
        tel  == StrictTelForCountry(form.from, ch.country)
    IN  IF verr.kind # "none" THEN Rejected(verr)
        ELSE IF ~date.ok THEN Rejected(Error("invalid date format", form.date))
        ELSE IF ~tel.ok THEN Rejected(Error("invalid tel", form.from))
        ELSE Accepted(<<NewIncomingMsg(ch, tel.urn, form.text, form.id, date.t)>>)

(***************************************************************************)
(* receiveStatus                                                           *)
(***************************************************************************)
\* courier.MsgStatusValue
MsgSent == "S"
MsgWired == "W"
MsgErrored == "E"
MsgDelivered == "D"
MsgFailed == "F"

statusMapping ==
    [s \in {"Success", "Sent", "Buffered", "Rejected", "Failed", "Expired"} |->
        CASE s = "Success"  -> MsgDelivered
          [] s = "Sent"     -> MsgSent
          [] s = "Buffered" -> MsgSent
          [] s = "Rejected" -> MsgFailed
          [] s = "Failed"   -> MsgFailed
          [] s = "Expired"  -> MsgFailed]

\* Backend.NewMsgStatusForExternalID
NewMsgStatusForExternalID(ch, externalID, value) ==
    [kind |-> "status", channel |-> ch.uuid, id |-> 0, externalID |-> externalID,
     status |-> value]

receiveStatusDefaulting(form, ch) ==
    LET verr == DecodeAndValidateForm(form, statusForm)
    IN  IF verr.kind # "none" THEN Rejected(verr)
        ELSE Accepted(<<NewMsgStatusForExternalID(ch, form.id,
                 IF form.status \in DOMAIN statusMapping
                 THEN statusMapping[form.status] ELSE MsgFailed)>>)

receiveStatus_form(form, ch) ==
    LET verr == DecodeAndValidateForm(form, statusForm)
    IN  IF verr.kind # "none" THEN Rejected(verr)
        ELSE IF form.status \notin DOMAIN statusMapping
        THEN Rejected(Error("unknown status", form.status))
        ELSE Accepted(<<NewMsgStatusForExternalID(ch, form.id,
                                                  statusMapping[form.status])>>)

(***************************************************************************)
(* SendMsg                                                                 *)
(***************************************************************************)
sendURL == "https://api.mista.io/sms"
StatusOK == 200

\* Backend.NewMsgStatusForID
NewMsgStatusForID(ch, id, value) ==
    [kind |-> "status", channel |-> ch.uuid, id |-> id, externalID |-> "",
     status |-> value]

\* the HTTP request the revision builds
NewRequest(body, headers) ==
    [method |-> "POST", url |-> sendURL, headers |-> headers, body |-> body]

\* what the first part of SendMsg, up to the HTTP call, comes to: the error
\* it returns, or the request it hands to the HTTP client
SendMsgRequest_mista(msg, ch) ==
    LET apiKey == "Bearer " \o ch.apiKey
    IN  IF apiKey = ""
        THEN [err |-> Error("no API key set for Mista channel", ""), req |-> <<>>]
        ELSE [err |-> NoError,
              req |-> <<NewRequest(
                  [recipient |-> msg.urn, sender_id |-> ch.address,
                   message |-> msg.text, type |-> "plain"],
                  [Accept |-> <<"application/json">>,
                   ContentType |-> <<"application/json">>,
                   Authorization |-> <<apiKey>>])>>]

SendMsgRequest_part000(msg, ch) ==
    LET apiKey == ("Bearer" \o " ") \o ch.apiKey
    IN  IF apiKey = ""
        THEN [err |-> Error("no API key set for Mista channel", ""), req |-> <<>>]
        ELSE [err |-> NoError,
              req |-> <<NewRequest(
                  [recipient |-> msg.urn, sender_id |-> ch.address,
                   message |-> msg.text, type |-> "plain"],
                  [Accept |-> <<"application/json">>,
                   ContentType |-> <<>>,
                   Authorization |-> <<apiKey>>])>>]

SendMsgRequest_part001(msg, ch) ==
    LET apiKey == "Bearer " \o ch.apiKey
    IN  IF apiKey = ""
        THEN [err |-> Error("no API key set for Mista channel", ""), req |-> <<>>]
        ELSE [err |-> NoError,
              req |-> <<NewRequest(
                  [recipient |-> ch.address, sender_id |-> ch.senderID,
                   message |-> msg.text, type |-> "plain"],
                  [Accept |-> <<"application/json">>,
                   ContentType |-> <<"application/json">>,
                   Authorization |-> <<apiKey>>])>>]

(***************************************************************************)
(* The provider's answer as the HTTP client sees it: whether the           *)
(* connection was made, the status code, whether the body could be read,   *)
(* and the body.  A body is what a JSON parser finds in it: whether it is  *)
(* well-formed JSON, the top-level members status and uid and the members  *)
(* status and uid of the object under data, each missing (<<>>) or a       *)
(* string.                                                                 *)
(***************************************************************************)
\* json.Unmarshal into struct{Status `json:"status"`; UID `json:"uid"`}
Unmarshal(body) ==
    IF ~body.wf THEN [ok |-> FALSE, Status |-> "", UID |-> ""]
    ELSE [ok |-> TRUE,
          Status |-> IF body.status = <<>> THEN "" ELSE body.status[1],
          UID |-> IF body.uid = <<>> THEN "" ELSE body.uid[1]]

\* jsonparser.GetString(body, "data", key), its error dropped
GetString(body, key) ==
    LET m == IF key = "status" THEN body.dstatus ELSE body.duid
    IN  IF ~body.wf \/ m = <<>> THEN "" ELSE m[1]

\* utils.MakeHTTPRequest: whether it returns an error
MakeHTTPRequestFails(resp) ==
    ~resp.connected \/ ~resp.readable \/ resp.code \div 100 # 2

\* what the second part of SendMsg, from the HTTP call on, returns: the
\* status (<<>> for nil) and the error
SendMsgResult_mista(msg, ch, resp) ==
    IF ~resp.connected THEN [status |-> <<>>, err |-> Error("transport", "")]
    ELSE IF ~resp.readable THEN [status |-> <<>>, err |-> Error("read", "")]
    ELSE IF resp.code # StatusOK
    THEN [status |-> <<>>, err |-> Error("SMS request failed with status code", resp.code)]
    ELSE LET st == NewMsgStatusForID(ch, msg.id, MsgErrored)
             responseData == Unmarshal(resp.body)
         IN  IF ~responseData.ok THEN [status |-> <<st>>, err |-> NoError]
             ELSE [status |-> <<[st EXCEPT !.status = MsgWired,
                                          !.externalID = responseData.UID]>>,
                   err |-> NoError]

SendMsgResult_part000(msg, ch, resp) ==
    LET st == NewMsgStatusForID(ch, msg.id, MsgErrored)
    IN  IF MakeHTTPRequestFails(resp) THEN [status |-> <<st>>, err |-> NoError]
        ELSE IF GetString(resp.body, "status") # "Delivered"
        THEN [status |-> <<[st EXCEPT !.status = MsgErrored]>>, err |-> NoError]
        ELSE [status |-> <<[st EXCEPT !.status = MsgWired,
                                     !.externalID = GetString(resp.body, "uid")]>>,
              err |-> NoError]

SendMsgResult_part001(msg, ch, resp) ==
    IF ~resp.connected THEN [status |-> <<>>, err |-> Error("transport", "")]
    ELSE IF ~resp.readable THEN [status |-> <<>>, err |-> Error("read", "")]
    ELSE IF resp.code # StatusOK
    THEN [status |-> <<>>, err |-> Error("SMS request failed with status code", resp.code)]
    ELSE LET responseData == Unmarshal(resp.body)
             st == NewMsgStatusForID(ch, msg.id, MsgErrored)
         IN  IF ~responseData.ok THEN [status |-> <<>>, err |-> Error("json", "")]
             ELSE IF responseData.Status = "Delivered"
             THEN [status |-> <<[st EXCEPT !.status = MsgWired,
                                          !.externalID = responseData.UID]>>,
                   err |-> NoError]
             ELSE [status |-> <<[st EXCEPT !.status = MsgErrored]>>, err |-> NoError]

(***************************************************************************)
(* The inputs                                                              *)
(***************************************************************************)
Channels ==
    [uuid : {"ch1"}, country : {"UG", "US"}, apiKey : {"", "k3y"},
     address : {"2020"}, senderID : {"MISTA"}]

DateISO == <<"2","0","1","7","-","0","5","-","0","3","T","0","6",":","0","4",":","4","5","Z">>
DateSpace == <<"2","0","1","7","-","0","5","-","0","3"," ","0","6",":","0","4",":","4","5">>
DateLeapSpace == <<"2","0","1","6","-","0","2","-","2","9"," ","2","3",":","5","9",":","5","9">>
DateNewYearISO == <<"2","0","0","0","-","0","1","-","0","1","T","0","0",":","0","0",":","0","0","Z">>
DateSlashes == <<"0","3","/","0","5","/","2","0","1","7">>
DateOffset == <<"2","0","1","7","-","0","5","-","0","3","T","0","1",":","0","4",":","4","5","+","0","2",":","0","0">>
DateOnly == <<"2","0","1","7","-","0","5","-","0","3">>
DateWords == <<"n","o","w">>
DateNone == <<>>

Dates ==
    {DateNone, DateISO, DateSpace, DateLeapSpace, DateNewYearISO, DateSlashes,
     DateOffset, DateOnly, DateWords}

MoForms ==
    [id : {"", "m1"}, text : {"", "hello"},
     from : {"", "0711223344", "2065551212", "12345"},
     to : {"", "256"}, date : Dates]

StatusForms ==
    [id : {"", "abc123"},
     status : {"", "Success", "Sent", "Buffered", "Rejected", "Failed", "Expired",
               "success", "Delivered", "DLR-7"}]

Msgs ==
    {[id |-> 10, urn |-> "+15551234567", text |-> "hi"],
     [id |-> 11, urn |-> "+256711223344", text |-> "hello"]}

UIDs == {"abc123", "u2"}
Opt(S) == {<<>>} \cup {<<x>> : x \in S}

NotJSON == [wf |-> FALSE, status |-> <<>>, uid |-> <<>>, dstatus |-> <<>>, duid |-> <<>>]

Bodies ==
    [wf : {TRUE}, status : Opt({"Delivered", "Failed"}), uid : Opt(UIDs),
     dstatus : Opt({"Delivered", "Failed"}), duid : Opt(UIDs)]
    \cup {NotJSON}

Responses ==
    [connected : {TRUE}, code : {200, 500}, readable : {TRUE}, body : Bodies]
    \cup [connected : {TRUE}, code : {200, 500}, readable : {FALSE}, body : {NotJSON}]
    \cup [connected : {FALSE}, code : {0}, readable : {FALSE}, body : {NotJSON}]

(***************************************************************************)
(* The handler as a state machine: one call at a time, nothing kept from   *)
(* one call to the next.                                                   *)
(***************************************************************************)
receiveMessageOf(r, form, ch) ==
    CASE r = "mista" -> receiveMessage_mista(form, ch)
      [] r = "part_000" -> receiveMessage_part000(form, ch)
      [] r = "part_001" -> receiveMessage_part001(form, ch)

SendMsgRequestOf(r, msg, ch) ==
    CASE r = "mista" -> SendMsgRequest_mista(msg, ch)
      [] r = "part_000" -> SendMsgRequest_part000(msg, ch)
      [] r = "part_001" -> SendMsgRequest_part001(msg, ch)

SendMsgResultOf(r, msg, ch, resp) ==
    CASE r = "mista" -> SendMsgResult_mista(msg, ch, resp)
      [] r = "part_000" -> SendMsgResult_part000(msg, ch, resp)
      [] r = "part_001" -> SendMsgResult_part001(msg, ch, resp)

Init ==
    /\ rev \in Revisions
    /\ channel \in Channels
    /\ handler = "none"
    /\ input = <<>>
    /\ pc = "idle"
    /\ netCalls = 0
    /\ request = <<>>
    /\ response = <<>>
    /\ status = <<>>
    /\ events = <<>>
    /\ err = NoError

receiveMessage ==
    /\ pc = "idle"
    /\ \E form \in MoForms :
         LET r == receiveMessageOf(rev, form, channel)
         IN  /\ handler' = "receiveMessage"
             /\ input' = form
             /\ events' = r.events
             /\ err' = r.err
    /\ pc' = "done"
    /\ netCalls' = 0
    /\ request' = <<>>
    /\ response' = <<>>
    /\ status' = <<>>
    /\ UNCHANGED <<rev, channel>>

receiveStatus ==
    /\ pc = "idle"
    /\ \E form \in StatusForms :
         LET r == receiveStatus_form(form, channel)
         IN  /\ handler' = "receiveStatus"
             /\ input' = form
             /\ events' = r.events
             /\ err' = r.err
    /\ pc' = "done"
    /\ netCalls' = 0
    /\ request' = <<>>
    /\ response' = <<>>
    /\ status' = <<>>
    /\ UNCHANGED <<rev, channel>>

\* SendMsg up to and including the HTTP client's call: it returns at once
\* with an error, or blocks in the call with the request on the wire
SendMsg ==
    /\ pc = "idle"
    /\ \E msg \in Msgs :
         LET r == SendMsgRequestOf(rev, msg, channel)
         IN  /\ handler' = "SendMsg"
             /\ input' = msg
             /\ request' = r.req
             /\ err' = r.err
             /\ netCalls' = Len(r.req)
             /\ pc' = IF r.req = <<>> THEN "done" ELSE "inflight"
    /\ response' = <<>>
    /\ status' = <<>>
    /\ events' = <<>>
    /\ UNCHANGED <<rev, channel>>

\* the HTTP call comes back and SendMsg runs to its return
SendMsgReturn ==
    /\ pc = "inflight"
    /\ \E resp \in Responses :
         LET r == SendMsgResultOf(rev, input, channel, resp)
         IN  /\ response' = <<resp>>
             /\ status' = r.status
             /\ events' = r.status
             /\ err' = r.err
    /\ pc' = "done"
    /\ UNCHANGED <<rev, channel, handler, input, netCalls, request>>

\* the call is over: nothing of it is kept for the next one
EndOfRequest ==
    /\ pc = "done"
    /\ pc' = "idle"
    /\ handler' = "none"
    /\ input' = <<>>
    /\ netCalls' = 0
    /\ request' = <<>>
    /\ response' = <<>>
    /\ status' = <<>>
    /\ events' = <<>>
    /\ err' = NoError
    /\ UNCHANGED <<rev, channel>>

Next ==
    receiveMessage \/ receiveStatus \/ SendMsg \/ SendMsgReturn \/ EndOfRequest

Spec == Init /\ [][Next]_vars

(***************************************************************************)
(* Properties                                                              *)
(***************************************************************************)
Returned(h) == handler = h /\ pc = "done"

\* a failure at network level: no connection, an unreadable body, a status
\* outside 2xx
NetworkFailure(resp) ==
    ~resp.connected \/ ~resp.readable \/ resp.code < 200 \/ resp.code > 299

\* {"data":{"status":"Delivered","uid":U}}
DeliveredBody(U) ==
    [wf |-> TRUE, status |-> <<>>, uid |-> <<>>, dstatus |-> <<"Delivered">>,
     duid |-> <<U>>]

\* the body says Delivered, at the top level or under data
SaysDelivered(body) ==
    body.wf /\ (body.status = <<"Delivered">> \/ body.dstatus = <<"Delivered">>)

\* C1: every SendMsg that reached the provider call (here: with an API key
\* configured) returns a status and a nil error; after a failure at network
\* level the status is Errored and has no external ID.
C1_SendAlwaysYieldsStatus ==
    (Returned("SendMsg") /\ netCalls = 1 /\ channel.apiKey # "") =>
        /\ Len(events) = 1
        /\ err.kind = "none"
        /\ NetworkFailure(response[1]) =>
               events[1].status = MsgErrored /\ events[1].externalID = ""

\* C2: SendMsg (with an API key configured) returns Wired only for a
\* successful HTTP status with a JSON body whose status is Delivered; after a
\* successful HTTP status, a JSON body with another or no status, and a body
\* that is not JSON, give Errored.
C2_WiredOnlyOnDelivered ==
    (Returned("SendMsg") /\ netCalls = 1 /\ channel.apiKey # "") =>
        /\ (Len(events) = 1 /\ events[1].status = MsgWired) =>
               ~NetworkFailure(response[1]) /\ SaysDelivered(response[1].body)
        /\ (~NetworkFailure(response[1]) /\ ~SaysDelivered(response[1].body)) =>
               Len(events) = 1 /\ events[1].status = MsgErrored

\* C3: with no API key configured SendMsg issues no request to the provider
\* and ends with the missing-credential error.
C3_NoKeyNoNetworkCall ==
    (handler = "SendMsg" /\ channel.apiKey = "") =>
        /\ netCalls = 0
        /\ request = <<>>
        /\ pc = "done"
        /\ err.kind = "no API key set for Mista channel"

\* C4: for a channel with an API key, a successful HTTP status with the body
\* {"data":{"status":"Delivered","uid":U}} gives Wired with external ID U.
C4_WiredCarriesUID ==
    \A U \in UIDs :
        (/\ Returned("SendMsg")
         /\ netCalls = 1
         /\ channel.apiKey # ""
         /\ ~NetworkFailure(response[1])
         /\ response[1].body = DeliveredBody(U)) =>
            /\ Len(events) = 1
            /\ events[1].status = MsgWired
            /\ events[1].externalID = U

\* C5: receiveStatus, for a form with its two required fields, maps Success
\* to Delivered, Sent and Buffered to Sent, Rejected, Failed and Expired to
\* Failed, and hands the host one status keyed by the form's id; any other
\* status is rejected with no status handed over and, for a form with its
\* required fields, with the error that names the status.
C5_StatusMapping ==
    Returned("receiveStatus") =>
        LET known == {"Success", "Sent", "Buffered", "Rejected", "Failed", "Expired"}
            want  == CASE input.status = "Success" -> "D"
                       [] input.status \in {"Sent", "Buffered"} -> "S"
                       [] OTHER -> "F"
        IN  /\ (input.id # "" /\ input.status \in known) =>
                   /\ err.kind = "none"
                   /\ Len(events) = 1
                   /\ events[1].kind = "status"
                   /\ events[1].externalID = input.id
                   /\ events[1].status = want
            /\ input.status \notin known =>
                   events = <<>> /\ err.kind # "none"
            /\ (input.id # "" /\ input.status # "" /\ input.status \notin known) =>
                   err.kind = "unknown status" /\ err.value = input.status

C5_Witness ==
    /\ Returned("receiveStatus")
    /\ input.status = "Buffered"
    /\ Len(events) = 1
    /\ events[1].status = "S"

\* C6: receiveMessage rejects every form whose id, text, origin or
\* destination is empty: an error, and no message for the host.
C6_RequiredFields ==
    (/\ Returned("receiveMessage")
     /\ (input.id = "" \/ input.text = "" \/ input.from = "" \/ input.to = "")) =>
        events = <<>> /\ err.kind # "none"

\* the inputs in one of the two supported shapes, with the instant each names
SupportedDates == {DateISO, DateSpace, DateLeapSpace, DateNewYearISO}
InstantOf(date) ==
    CASE date = DateISO -> [day |-> 17289, sec |-> 21885]
      [] date = DateSpace -> [day |-> 17289, sec |-> 21885]
      [] date = DateLeapSpace -> [day |-> 16860, sec |-> 86399]
      [] date = DateNewYearISO -> [day |-> 10957, sec |-> 0]

\* the rest of the form is acceptable: the fields are there and the origin
\* is a phone number of the channel's country
RestOfFormValid ==
    /\ input.id # "" /\ input.text # "" /\ input.from # "" /\ input.to # ""
    /\ \E e \in TelPlan : e[1] = channel.country /\ e[2] = input.from

\* C7: receiveMessage accepts a date in the ISO form with the literal Z and
\* in the space-separated form, as the UTC instant it names; a non-empty date
\* in any other shape is rejected with the error that carries the date, and
\* no message.
C7_TwoFormatsOnly ==
    (Returned("receiveMessage") /\ RestOfFormValid /\ input.date # <<>>) =>
        IF input.date \in SupportedDates
        THEN /\ err.kind = "none"
             /\ Len(events) = 1
             /\ events[1].receivedOn = InstantOf(input.date)
        ELSE /\ events = <<>>
             /\ err.kind = "invalid date format"
             /\ err.value = input.date

\* C8: receiveMessage rejects every form whose origin is not a valid phone
\* number of the channel's country, with no message for the host; a message
\* it hands over carries the validated URN and the form's id as external ID.
C8_OriginValidated ==
    Returned("receiveMessage") =>
        LET valid == {e \in TelPlan : e[1] = channel.country /\ e[2] = input.from}
        IN  /\ valid = {} => (events = <<>> /\ err.kind # "none")
            /\ events # <<>> =>
                   /\ Len(events) = 1
                   /\ valid # {}
                   /\ \E e \in valid : events[1].urn = "tel:" \o e[3]
                   /\ events[1].externalID = input.id

C8_Witness ==
    /\ Returned("receiveMessage")
    /\ input.from = "12345"
    /\ input.text # "" /\ input.to # "" /\ input.date = DateISO
    /\ events = <<>>
    /\ err.kind = "invalid tel"

\* C9: while the HTTP call of SendMsg is in flight (for a channel with an
\* API key), the status record of the attempt exists already.
C9_StatusBeforeCall ==
    (pc = "inflight" /\ channel.apiKey # "") => status # <<>>

\* C10: in src/mista.go an empty date is not a malformed one: with the rest
\* of the form valid the message is accepted with the zero instant as its
\* received time, and an empty date never gives the date-format error; a
\* non-empty date in no supported format is rejected.
C10_AbsentDateIsZero ==
    (rev = "mista" /\ Returned("receiveMessage")) =>
        /\ input.date = <<>> => err.kind # "invalid date format"
        /\ (input.date = <<>> /\ RestOfFormValid) =>
               /\ err.kind = "none"
               /\ Len(events) = 1
               /\ events[1].receivedOn = [day |-> -719162, sec |-> 0]
        /\ input.date \in {DateSlashes, DateOnly, DateWords} =>
               events = <<>> /\ err.kind # "none"
        /\ (input.date \in {DateSlashes, DateOnly, DateWords} /\ RestOfFormValid) =>
               err.kind = "invalid date format" /\ err.value = input.date

C10_Witness ==
    /\ rev = "mista"
    /\ Returned("receiveMessage")
    /\ input.date = <<>>
    /\ Len(events) = 1
    /\ events[1].receivedOn = ZeroTime

====
